---------------------------- MODULE Spec2Model ----------------------------
(***************************************************************************)
(* Model of the minuteman chat archiver: the ingestion worker              *)
(* (workers/telegram_handler.rs), the key/value schema it writes, and the  *)
(* HTTP readers that share the store behind one mutex.                     *)
(***************************************************************************)
EXTENDS Integers, Sequences, FiniteSets, TLC

(***************************************************************************)
(* Option<T>: None is the empty sequence, Some(x) the one-element one.     *)
(***************************************************************************)
None == <<>>

Some(x) == <<x>>

IsSome(o) == o # <<>>

Unwrap(o) == o[1]

(***************************************************************************)
(* Decimal rendering of an i64 (i64::to_string) as a sequence of           *)
(* characters, and the inverse parse::<i64>().                             *)
(***************************************************************************)
DigitChars == <<"0", "1", "2", "3", "4", "5", "6", "7", "8", "9">>

RECURSIVE NatToString(_)
NatToString(n) ==
    IF n < 10 THEN <<DigitChars[n + 1]>>
    ELSE NatToString(n \div 10) \o <<DigitChars[(n % 10) + 1]>>

to_string(n) == IF n < 0 THEN <<"-">> \o NatToString(0 - n) ELSE NatToString(n)

DigitValue(ch) == CHOOSE d \in 0..9 : DigitChars[d + 1] = ch

RECURSIVE ParseNat(_)
ParseNat(s) ==
    IF Len(s) = 1 THEN DigitValue(s[1])
    ELSE 10 * ParseNat(SubSeq(s, 1, Len(s) - 1)) + DigitValue(s[Len(s)])

ParseInt(s) == IF s[1] = "-" THEN 0 - ParseNat(Tail(s)) ELSE ParseNat(s)

(***************************************************************************)
(* Program constants.                                                      *)
(***************************************************************************)
MAX_FILE_SIZE == 1024 * 1024 * 50

SecondsPerDay == 86400

\* i64 division truncates toward zero
TruncDiv(a, b) == IF a >= 0 THEN a \div b ELSE 0 - ((0 - a) \div b)

(***************************************************************************)
(* Normalisation of upstream identities into the *Meta structs.            *)
(***************************************************************************)
UserMetaFrom(user) ==
    [id |-> to_string(user.id), first_name |-> user.first_name,
     last_name |-> user.last_name, username |-> user.username,
     is_bot |-> user.is_bot, language_code |-> user.language_code]

GroupMetaFrom(group) ==
    [id |-> to_string(group.id), title |-> group.title,
     all_members_are_administrators |-> group.all_members_are_administrators,
     invite_link |-> group.invite_link]

SuperGroupMetaFrom(group) ==
    [id |-> to_string(group.id), title |-> group.title,
     username |-> group.username, invite_link |-> group.invite_link]

ChannelMetaFrom(chan) ==
    [id |-> to_string(chan.id), title |-> chan.title,
     username |-> chan.username, invite_link |-> chan.invite_link]

RawChatMetaFrom(raw) ==
    [id |-> to_string(raw.id), chat_type |-> raw.type_, title |-> raw.title,
     username |-> raw.username, first_name |-> raw.first_name,
     last_name |-> raw.last_name, invite_link |-> raw.invite_link,
     language_code |-> raw.language_code,
     all_members_are_administrators |-> raw.all_members_are_administrators]

\* enum ChatMeta: the variant name and its payload
ChatMetaVariants == {"User", "Group", "SuperGroup", "Channel", "Unknown"}

\* From<MessageChat> / From<Channel> for ChatMeta
ChatMetaFrom(chat) ==
    CASE chat.variant = "Private" ->
            [variant |-> "User", meta |-> UserMetaFrom(chat.data)]
      [] chat.variant = "Group" ->
            [variant |-> "Group", meta |-> GroupMetaFrom(chat.data)]
      [] chat.variant = "Supergroup" ->
            [variant |-> "SuperGroup", meta |-> SuperGroupMetaFrom(chat.data)]
      [] chat.variant = "Channel" ->
            [variant |-> "Channel", meta |-> ChannelMetaFrom(chat.data)]
      [] OTHER ->
            [variant |-> "Unknown", meta |-> RawChatMetaFrom(chat.data)]

\* ChatMeta::id
ChatMetaId(chat) == chat.meta.id

\* From<ForwardFrom> for ForwardFromMeta
ForwardFromMetaFrom(ff) ==
    CASE ff.variant = "User" ->
            [variant |-> "User", user |-> UserMetaFrom(ff.user)]
      [] ff.variant = "Channel" ->
            [variant |-> "Channel", channel |-> ChannelMetaFrom(ff.channel),
             message_id |-> ff.message_id]
      [] ff.variant = "ChannelHiddenUser" ->
            [variant |-> "ChannelHiddenUser", sender_name |-> ff.sender_name]
      [] OTHER ->
            [variant |-> "HiddenGroupAdmin", chat_id |-> to_string(ff.chat_id),
             title |-> ff.title]

\* From<Forward> for ForwardMeta
ForwardMetaFrom(forward) ==
    [date |-> forward.date, from |-> ForwardFromMetaFrom(forward.from)]

(***************************************************************************)
(* InterMessage: the normalised upstream message.  A raw message carries   *)
(* post = TRUE when it is a ChannelPost (no sender, chat is a Channel).    *)
(***************************************************************************)
RECURSIVE InterMessageFrom(_)
InterMessageFrom(msg) ==
    [id |-> msg.id,
     from |-> IF msg.post THEN None ELSE Some(UserMetaFrom(msg.from)),
     date |-> msg.date,
     chat |-> ChatMetaFrom(msg.chat),
     forward |-> IF IsSome(msg.forward)
                 THEN Some(ForwardMetaFrom(Unwrap(msg.forward))) ELSE None,
     reply_to_message |-> IF IsSome(msg.reply_to_message)
                          THEN Some(InterMessageFrom(Unwrap(msg.reply_to_message)))
                          ELSE None,
     edit_date |-> msg.edit_date,
     kind |-> msg.kind]

(***************************************************************************)
(* Keys of the store.  A key is the tuple of the parts that format! joins  *)
(* with colons: the namespace, then the ids rendered as text.              *)
(***************************************************************************)
\* a variant of MessageKey that keeps one record per chat and day
MessageKeyByDay(chat_id, time) ==
    <<"chat", chat_id, to_string(ParseInt(time) \div SecondsPerDay)>>

\* format!("chat:{}:{}", chat_id, established_date)
MessageKey(chat_id, time) == <<"chat", chat_id, time>>

ChatIndexKey(chat_id, day) == <<"chat_index", chat_id, day>>

ChatRelKey(chat_id) == <<"chat_rel", chat_id>>

MessageRefKey(chat_id, message_id) == <<"chat_ref", chat_id, message_id>>

ChatMetaKey(chat_id) == <<"chat:meta", chat_id>>

UserMetaKey(user_id) == <<"user:meta", user_id>>

\* build_file_key
build_file_key(file_entry_type, file_id) ==
    CASE file_entry_type = "Chat" -> <<"file:chat", file_id>>
      [] file_entry_type = "VideoThumb" -> <<"file:video_thumb", file_id>>
      [] OTHER -> <<"file:user", file_id>>

\* the value b"\0" of the index and roster entries
NulByte == "NUL"

\* DB::put on a store held as a function from keys to values
Put(db, key, value) ==
    [k \in (DOMAIN db) \cup {key} |-> IF k = key THEN value ELSE db[k]]

\* DB::get
Get(db, key) == IF key \in DOMAIN db THEN Some(db[key]) ELSE None

(***************************************************************************)
(* Bytes of a blob: nothing, bytes the image sniffer accepts, other bytes. *)
(***************************************************************************)
EmptyBytes == "empty"

ImageBytes == "image"

OtherBytes == "other"

Blobs == {EmptyBytes, ImageBytes, OtherBytes}

\* image::load_from_memory(&file).is_ok()
LoadFromMemoryOk(file) == file = ImageBytes

(***************************************************************************)
(* Media pipeline, pure parts.                                             *)
(***************************************************************************)
MediaKinds == {"Audio", "Voice", "Photo", "Document", "Sticker", "Video", "VideoNote"}

\* a variant of FileSizeAccepted that drops a file of exactly MAX_FILE_SIZE
FileSizeAcceptedBelowMax(file_size) == IsSome(file_size) /\ Unwrap(file_size) < MAX_FILE_SIZE

\* the match on file_size of extract_file_paths
FileSizeAccepted(file_size) == IsSome(file_size) /\ Unwrap(file_size) <= MAX_FILE_SIZE

\* extract_file_paths: the file-ids whose path was resolved; has_path is the
\* set of file-ids for which the upstream get_file_path answers Some
extract_file_paths(message, has_path) ==
    CASE message.kind.type \in {"Audio", "Voice"} ->
            IF FileSizeAccepted(message.kind.data.file_size)
               /\ message.kind.data.file_id \in has_path
            THEN <<message.kind.data.file_id>> ELSE <<>>
      [] message.kind.type = "Photo" ->
            LET kept == SelectSeq(message.kind.data,
                            LAMBDA photo : FileSizeAccepted(photo.file_size)
                                           /\ photo.file_id \in has_path)
            IN [i \in 1..Len(kept) |-> kept[i].file_id]
      [] OTHER -> <<>>

\* the file-ids a message names, which get_file_path may be asked about
AttachmentIds(message) ==
    CASE message.kind.type \in {"Audio", "Voice"} -> {message.kind.data.file_id}
      [] message.kind.type = "Photo" ->
            {message.kind.data[i].file_id : i \in 1..Len(message.kind.data)}
      [] OTHER -> {}

\* find_biggest_photo
RECURSIVE BiggestFrom(_, _, _)
BiggestFrom(photos, photo, last_size) ==
    IF photos = <<>> THEN photo
    ELSE LET size == Head(photos)
         IN IF last_size = 0
            THEN BiggestFrom(Tail(photos), Some(size), size.width * size.height)
            ELSE IF size.width * size.height > last_size
                 THEN BiggestFrom(Tail(photos), Some(size), size.width * size.height)
                 ELSE BiggestFrom(Tail(photos), photo, last_size)

find_biggest_photo(photos) == Unwrap(BiggestFrom(photos, None, 0))

(***************************************************************************)
(* build_log_item, for the kinds that need no further download.  The       *)
(* LogItem is kept in its serialised shape: an object with one field named *)
(* by the lower-cased variant.                                             *)
(***************************************************************************)
\* the kinds build_log_item keeps as LogItem::Unimplemented, under their name
UnimplementedKinds ==
    {"GroupChatCreated", "SupergroupChatCreated", "ChannelChatCreated",
     "MigrateToChatId", "MigrateFromChatId", "Unknown"}

MsgFromId(message) ==
    IF IsSome(message.from) THEN Some(Unwrap(message.from).id) ELSE None

build_log_item(message, files) ==
    LET msg_from_id == MsgFromId(message)
        kind == message.kind
    IN CASE kind.type = "Text" ->
              [message |-> [user_id |-> msg_from_id, time |-> message.date,
                            text |-> kind.data, entities |-> kind.entities,
                            source |-> Some(message)]]
         [] kind.type = "Audio" ->
              [media |-> [user_id |-> msg_from_id, time |-> message.date,
                          caption |-> None,
                          type |-> [audio |-> [duration |-> kind.data.duration,
                                               performer |-> kind.data.performer,
                                               title |-> kind.data.title,
                                               mime_type |-> kind.data.mime_type]],
                          files |-> files, source |-> Some(message)]]
         [] kind.type = "Voice" ->
              [media |-> [user_id |-> msg_from_id, time |-> message.date,
                          caption |-> None,
                          type |-> [voice |-> [duration |-> kind.data.duration,
                                               mime_type |-> kind.data.mime_type]],
                          files |-> files, source |-> Some(message)]]
         [] kind.type = "Photo" ->
              LET photo == find_biggest_photo(kind.data)
              IN [media |-> [user_id |-> msg_from_id, time |-> message.date,
                             caption |-> kind.caption,
                             type |-> [image |-> [width |-> photo.width,
                                                  height |-> photo.height]],
                             files |-> files, source |-> Some(message)]]
         [] kind.type = "Document" ->
              [media |-> [user_id |-> msg_from_id, time |-> message.date,
                          caption |-> kind.caption,
                          type |-> [document |-> [file_name |-> kind.data.file_name,
                                                  mime_type |-> kind.data.mime_type]],
                          files |-> files, source |-> Some(message)]]
         [] kind.type = "Sticker" ->
              [media |-> [user_id |-> msg_from_id, time |-> message.date,
                          caption |-> None,
                          type |-> [sticker |-> [emoji |-> kind.data.emoji,
                                                 set_name |-> kind.data.set_name]],
                          files |-> files, source |-> Some(message)]]
         [] kind.type = "NewChatMembers" ->
              [membership |-> [user_id |-> msg_from_id, time |-> message.date,
                               type |-> "joined", source |-> Some(message)]]
         [] kind.type = "LeftChatMember" ->
              [membership |-> [user_id |-> msg_from_id, time |-> message.date,
                               type |-> "left", source |-> Some(message)]]
         [] kind.type = "NewChatTitle" ->
              [chat |-> [user_id |-> msg_from_id, time |-> message.date,
                         type |-> [newtitle |-> [title |-> kind.data]],
                         source |-> Some(message)]]
         [] kind.type = "DeleteChatPhoto" ->
              [chat |-> [user_id |-> msg_from_id, time |-> message.date,
                         type |-> "deletephoto", source |-> Some(message)]]
         [] kind.type \in UnimplementedKinds ->
              [unimplemented |-> <<kind.type, msg_from_id, message.date,
                                   Some(message)>>]

\* serde_json::from_str::<LogItem>: the variant and its fields, if the value
\* is an object with exactly one field naming a LogItem variant
LogItemVariants ==
    {"message", "media", "special", "membership", "chat", "pin", "unimplemented"}

DecodeLogItem(v) ==
    IF Cardinality(DOMAIN v) = 1 /\ DOMAIN v \subseteq LogItemVariants
    THEN LET tag == CHOOSE t \in DOMAIN v : TRUE
         IN Some([variant |-> tag, fields |-> v[tag]])
    ELSE None

(***************************************************************************)
(* handle_message, pure parts.                                             *)
(***************************************************************************)
\* a variant of EstablishedDate that ignores the forward
EstablishedDateOwnDate(message) == message.date

\* established_date: forward.date when a forward is present, else date
EstablishedDate(message) ==
    IF IsSome(message.forward) THEN Unwrap(message.forward).date ELSE message.date

\* a variant of UseForwardedChat that leaves out the Unknown chats
UseForwardedChatUserOnly(message) == message.chat.variant = "User"

\* use_forwarded_chat
UseForwardedChat(message) == message.chat.variant \in {"User", "Unknown"}

\* the Option<String> the closure over message.forward yields for chat_id
ForwardChatId(message) ==
    IF ~IsSome(message.forward) \/ ~UseForwardedChat(message) THEN None
    ELSE LET from == Unwrap(message.forward).from
         IN CASE from.variant = "User" -> Some(from.user.id)
              [] from.variant = "Channel" -> Some(from.channel.id)
              [] from.variant = "ChannelHiddenUser" -> None
              [] OTHER -> Some(from.chat_id)

ChatId(message) ==
    IF IsSome(ForwardChatId(message)) THEN Unwrap(ForwardChatId(message))
    ELSE ChatMetaId(message.chat)

\* serde_json::to_string of a ChatMeta: externally tagged, one field named
\* by the variant
SerializeChatMeta(chat) == [tag \in {chat.variant} |-> chat.meta]

\* serde_json::to_string of a struct (UserMeta, ChannelMeta): its fields
SerializeStruct(meta) == meta

\* chat_meta_value
ChatMetaValue(message) ==
    LET forwarded ==
            IF ~IsSome(message.forward) \/ ~UseForwardedChat(message) THEN None
            ELSE LET from == Unwrap(message.forward).from
                 IN CASE from.variant = "User" -> Some(SerializeStruct(from.user))
                      [] from.variant = "Channel" -> Some(SerializeStruct(from.channel))
                      [] OTHER -> None
    IN IF IsSome(forwarded) THEN Unwrap(forwarded)
       ELSE SerializeChatMeta(message.chat)

\* serde_json::from_slice::<ChatMeta>: an object with exactly one field that
\* names a variant, whose payload has the fields the variant requires
RequiredFields(variant) ==
    CASE variant = "User" -> {"id", "first_name", "is_bot"}
      [] variant = "Group" -> {"id", "title", "all_members_are_administrators"}
      [] variant = "Unknown" -> {"id", "chat_type"}
      [] OTHER -> {"id", "title"}

DecodeChatMeta(v) ==
    IF Cardinality(DOMAIN v) = 1 /\ DOMAIN v \subseteq ChatMetaVariants
    THEN LET tag == CHOOSE t \in DOMAIN v : TRUE
         IN IF RequiredFields(tag) \subseteq DOMAIN v[tag]
            THEN Some([variant |-> tag, meta |-> v[tag]]) ELSE None
    ELSE None

\* the five writes of the block: the key and the value of each
MessageWrite(message, log_item) ==
    <<MessageKey(ChatId(message), to_string(EstablishedDate(message))), log_item>>

ChatIndexWrite(message) ==
    <<ChatIndexKey(ChatId(message),
                   to_string(TruncDiv(EstablishedDate(message), SecondsPerDay))),
      NulByte>>

ChatRelWrite(message) == <<ChatRelKey(ChatId(message)), NulByte>>

MessageRefWrite(message) ==
    <<MessageRefKey(ChatId(message), to_string(message.id)),
      to_string(EstablishedDate(message))>>

ChatMetaWrite(message) == <<ChatMetaKey(ChatId(message)), ChatMetaValue(message)>>

\* a variant of UserMetaValue that leaves the username out
UserMetaValueWithoutUsername(user) == [user EXCEPT !.username = None]

\* serde_json::to_string(&user_meta) for user:meta
UserMetaValue(user) == SerializeStruct(user)

(***************************************************************************)
(* The upstream: the users, chats and updates the long-poll can deliver.   *)
(***************************************************************************)
MaxUpdates == 2

MaxFaults == 1

\* handler panics a behaviour may contain
MaxPanics == 1

Ann == [id |-> 42, first_name |-> "Ann", last_name |-> None,
        username |-> Some("ann"), is_bot |-> FALSE, language_code |-> None]

Bob == [id |-> 7, first_name |-> "Bob", last_name |-> Some("Roe"),
        username |-> None, is_bot |-> FALSE, language_code |-> None]

PrivateChat == [variant |-> "Private", data |-> Bob]

GroupChat ==
    [variant |-> "Group",
     data |-> [id |-> -100, title |-> "G", all_members_are_administrators |-> FALSE,
               invite_link |-> None]]

SupergroupChat ==
    [variant |-> "Supergroup",
     data |-> [id |-> -101, title |-> "S", username |-> None, invite_link |-> None]]

UnknownChat ==
    [variant |-> "Unknown",
     data |-> [id |-> -102, type_ |-> "x", title |-> None, username |-> None,
               first_name |-> None, last_name |-> None, invite_link |-> None,
               language_code |-> None, all_members_are_administrators |-> None]]

NewsChannel == [id |-> -200, title |-> "News", username |-> Some("news"),
                invite_link |-> None]

ChannelChat == [variant |-> "Channel", data |-> NewsChannel]

MessageChats == {PrivateChat, GroupChat, SupergroupChat, UnknownChat}

\* the date of a message and the date of the original of a forward
MessageDate == SecondsPerDay

ForwardDate == SecondsPerDay - 1

\* the date of a message that a later one replies to
ReplyDate == SecondsPerDay - 60

\* the date of the first message of a reply chain
OriginalDate == SecondsPerDay - 120

ForwardOrigins ==
    {[variant |-> "User", user |-> Ann],
     [variant |-> "Channel", channel |-> NewsChannel, message_id |-> 9],
     [variant |-> "ChannelHiddenUser", sender_name |-> "anon"],
     [variant |-> "HiddenGroupAdmin", chat_id |-> -300, title |-> "H"]}

TextKind == [type |-> "Text", data |-> "hi", entities |-> <<>>]

AudioKind(file_size) ==
    [type |-> "Audio",
     data |-> [file_id |-> <<"a">>, file_size |-> file_size, duration |-> 3,
               performer |-> None, title |-> None, mime_type |-> None]]

PhotoKind ==
    [type |-> "Photo", caption |-> None,
     data |-> <<[file_id |-> <<"p">>, width |-> 100, height |-> 100,
                 file_size |-> Some(1000)],
                [file_id |-> <<"q">>, width |-> 800, height |-> 600,
                 file_size |-> Some(MAX_FILE_SIZE)]>>]

\* a Message, or a ChannelPost (post = TRUE) when the chat is a channel
RawMessage(id, date, chat, forward, reply, kind) ==
    [id |-> id, post |-> (chat.variant = "Channel"), from |-> Ann,
     date |-> date, chat |-> chat, forward |-> forward,
     reply_to_message |-> reply, edit_date |-> None, kind |-> kind]

\* UpdateKind::Message or UpdateKind::ChannelPost
Update(msg) ==
    [kind |-> IF msg.post THEN "ChannelPost" ELSE "Message", message |-> Some(msg)]

TextUpdate(id, chat, forward) ==
    Update(RawMessage(id, MessageDate, chat, forward, None, TextKind))

ForwardFrom(origin) == Some([date |-> ForwardDate, from |-> origin])

ForwardOf(variant) ==
    ForwardFrom(CHOOSE origin \in ForwardOrigins : origin.variant = variant)

AllChats == MessageChats \cup {ChannelChat}

\* one chat sending a text of its own and a text forwarded from one origin
ForwardFeed(chat, origin) ==
    {TextUpdate(1, chat, None), TextUpdate(2, chat, ForwardFrom(origin))}

\* a channel's post and a post of the same channel forwarded to a private chat
ChannelFeed ==
    {TextUpdate(1, ChannelChat, None), TextUpdate(2, PrivateChat, ForwardOf("Channel"))}

\* messages of one group in one second, and an edit of one of them
SameSecondFeed ==
    {TextUpdate(1, GroupChat, None), TextUpdate(2, GroupChat, None),
     [kind |-> "EditedMessage",
      message |-> Some(RawMessage(1, MessageDate, GroupChat, None, None, TextKind))]}

\* two forwards of one original to a private chat, and an update that is no
\* message
SameOriginalFeed ==
    {TextUpdate(1, PrivateChat, ForwardOf("User")),
     TextUpdate(2, PrivateChat, ForwardOf("User")),
     [kind |-> "Poll", message |-> None]}

\* an audio attachment of every declared size
AudioFeed ==
    {Update(RawMessage(3, MessageDate, GroupChat, None, None, AudioKind(file_size))) :
        file_size \in {None, Some(MAX_FILE_SIZE), Some(MAX_FILE_SIZE + 1)}}

\* a photo, and a reply to an earlier text
PhotoFeed ==
    {Update(RawMessage(4, MessageDate, GroupChat, None, None, PhotoKind)),
     Update(RawMessage(5, MessageDate, GroupChat, None,
                       Some(RawMessage(1, ReplyDate, GroupChat, None, None, TextKind)),
                       TextKind))}

\* a reply to a message that is itself a reply
ChainFeed ==
    {Update(RawMessage(8, MessageDate, GroupChat, None,
                       Some(RawMessage(7, ReplyDate, GroupChat, None,
                                       Some(RawMessage(6, OriginalDate, GroupChat,
                                                       None, None, TextKind)),
                                       TextKind)),
                       TextKind))}

\* the update streams a run of the model can see
Feeds ==
    {ForwardFeed(chat, origin) : chat \in AllChats, origin \in ForwardOrigins}
    \cup {ChannelFeed, SameSecondFeed, SameOriginalFeed, AudioFeed, PhotoFeed,
          ChainFeed}

(***************************************************************************)
(* State.                                                                  *)
(***************************************************************************)
VARIABLES
    feed,         \* the updates the upstream can deliver
    store,        \* the key/value store: a function from keys to values
    lock,         \* holder of the Mutex around the store: "free", "worker", "http"
    pc,           \* where the ingestion worker stands
    todo,         \* InterMessages of the current update still to be handled
    file_paths,   \* get_files: the resolved attachments not yet looked at
    cached,       \* get_files: what the look-up in the store returned
    file_refs,    \* get_files: the (file-id, bytes) pairs gathered
    put_index,    \* process_files: the number of blobs already written
    log_item,     \* handle_message: the LogItem built for the message
    writes,       \* handle_message: writes of the latest block already applied
    updates,      \* number of updates fetched so far
    faults,       \* number of failed store writes so far
    base,         \* the store as it was when the current update was fetched
    http,         \* where the HTTP handler stands: "idle", "reading", "rejected"
    seen,         \* what the HTTP handler found when it took the lock
    poisoned,     \* the Mutex is poisoned: a thread panicked holding its guard
    panics,       \* number of handler panics so far
    request,      \* the request a reader is serving, the input of a function
    response      \* what the reader answered, what the function returned

vars == <<feed, store, lock, pc, todo, file_paths, cached, file_refs, put_index,
          log_item, writes, updates, faults, base, http, seen, poisoned, panics,
          request, response>>

workerLocals == <<todo, file_paths, cached, file_refs, put_index, log_item>>

EmptyStore == [k \in {} |-> NulByte]

\* the state once main has opened the store and started both workers
Constructed ==
    /\ store = EmptyStore
    /\ lock = "free"
    /\ pc = "idle"
    /\ todo = <<>>
    /\ file_paths = <<>>
    /\ cached = None
    /\ file_refs = <<>>
    /\ put_index = 0
    /\ log_item = None
    /\ writes = 0
    /\ updates = 0
    /\ faults = 0
    /\ base = EmptyStore
    /\ http = "idle"
    /\ seen = 0
    /\ poisoned = FALSE
    /\ panics = 0

\* no request is being served
NoRequest ==
    /\ request = None
    /\ response = None

Init ==
    /\ feed \in Feeds
    /\ Constructed
    /\ NoRequest

\* the message handle_inter_message is working on
Current == Head(todo)

(***************************************************************************)
(* run: the loop over the update stream.                                   *)
(***************************************************************************)
\* a variant of InterMessagesOf that leaves the replied-to message out
InterMessagesOfNoReply(update) ==
    IF update.kind \in {"Message", "EditedMessage", "ChannelPost", "EditedChannelPost"}
    THEN <<InterMessageFrom(Unwrap(update.message))>>
    ELSE <<>>

\* the InterMessages run hands to handle_inter_message for one update
InterMessagesOf(update) ==
    IF update.kind \in {"Message", "EditedMessage", "ChannelPost", "EditedChannelPost"}
    THEN LET inter_msg == InterMessageFrom(Unwrap(update.message))
         IN (IF IsSome(inter_msg.reply_to_message)
             THEN <<Unwrap(inter_msg.reply_to_message)>> ELSE <<>>)
            \o <<inter_msg>>
    ELSE <<>>

\* stream.next() yields an update
FetchUpdate ==
    /\ pc = "idle"
    /\ updates < MaxUpdates
    /\ \E update \in feed :
          /\ todo' = InterMessagesOf(update)
          /\ pc' = IF todo' = <<>> THEN "idle" ELSE "inter"
    /\ updates' = updates + 1
    /\ base' = store
    /\ UNCHANGED <<poisoned, panics, feed, request, response, store, lock, file_paths, cached, file_refs, put_index,
                   log_item, writes, faults, http, seen>>

\* stream.next() yields an error: update? returns it from run
FetchError ==
    /\ pc = "idle"
    /\ pc' = "sleep"
    /\ base' = store
    /\ UNCHANGED <<store, lock, workerLocals, writes, poisoned, panics, feed, request, response, updates, faults, http, seen>>

\* a variant of Restart that takes the failed update up again
RestartRetrying ==
    /\ pc = "sleep"
    /\ pc' = IF todo = <<>> THEN "idle" ELSE "inter"
    /\ UNCHANGED <<store, lock, workerLocals, writes, poisoned, panics, feed, request, response,
                   updates, faults, base, http, seen>>

\* spawn_worker: sleep JOB_SLEEP_INTERVAL, then run again
Restart ==
    /\ pc = "sleep"
    /\ pc' = "idle"
    /\ todo' = <<>>
    /\ file_paths' = <<>>
    /\ cached' = None
    /\ file_refs' = <<>>
    /\ put_index' = 0
    /\ log_item' = None
    /\ UNCHANGED <<store, lock, writes, poisoned, panics, feed, request, response, updates, faults, base, http, seen>>

(***************************************************************************)
(* handle_inter_message: process_files (get_files, then the blob writes),  *)
(* handle_message (the five-write block), process_user.                    *)
(***************************************************************************)
\* DB::key_may_exist: TRUE for a key that exists, either answer otherwise
KeyMayExistAnswers(db, key) == IF key \in DOMAIN db THEN {TRUE} ELSE {TRUE, FALSE}

\* the file-ids of the pairs get_files returned
FileIds(refs) == [i \in 1..Len(refs) |-> refs[i][1]]

\* where process_files stands once a path has been dealt with
AfterPath(paths, refs) ==
    IF paths # <<>> THEN "get_files"
    ELSE IF refs # <<>> THEN "put_files" ELSE "handle"

\* entry of handle_inter_message: extract_file_paths for the media kinds
HandleInterMessage ==
    /\ pc = "inter"
    /\ IF Current.kind.type \in MediaKinds
       THEN \E has_path \in SUBSET AttachmentIds(Current) :
               /\ file_paths' = extract_file_paths(Current, has_path)
               /\ pc' = AfterPath(file_paths', <<>>)
       ELSE /\ file_paths' = <<>>
            /\ pc' = "handle"
    /\ file_refs' = <<>>
    /\ put_index' = 0
    /\ cached' = None
    /\ log_item' = None
    /\ UNCHANGED <<store, lock, todo, writes, poisoned, panics, feed, request, response, updates, faults, base, http, seen>>

\* get_files: under the lock, key_may_exist(&file_id) and the read of
\* build_file_key(FileEntryType::User, &file_id)
GetFilesLookup ==
    /\ pc = "get_files"
    /\ lock = "free"
    /\ ~poisoned
    /\ \E may_exist \in KeyMayExistAnswers(store, Head(file_paths)) :
          cached' = IF may_exist
                    THEN Get(store, build_file_key("User", Head(file_paths)))
                    ELSE None
    /\ pc' = "fetch"
    /\ UNCHANGED <<store, lock, todo, file_paths, file_refs, put_index, log_item,
                   writes, poisoned, panics, feed, request, response, updates, faults, base, http, seen>>

\* get_files: get_file(&file_path).await.ok() unless the store had the bytes
GetFilesFetch ==
    /\ pc = "fetch"
    /\ \E file \in (IF IsSome(cached) THEN {cached}
                    ELSE {None} \cup {Some(bytes) : bytes \in Blobs}) :
          file_refs' = IF IsSome(file)
                       THEN Append(file_refs, <<Head(file_paths), Unwrap(file)>>)
                       ELSE file_refs
    /\ file_paths' = Tail(file_paths)
    /\ cached' = None
    /\ pc' = AfterPath(file_paths', file_refs')
    /\ UNCHANGED <<store, lock, todo, put_index, log_item, writes, poisoned, panics, feed, request, response, updates,
                   faults, base, http, seen>>

\* process_files: db.put(build_file_key(FileEntryType::Chat, file_id), file)?
ProcessFilesPut ==
    /\ pc = "put_files"
    /\ lock = "free"
    /\ ~poisoned
    /\ \/ /\ store' = Put(store, build_file_key("Chat", file_refs[put_index + 1][1]),
                          file_refs[put_index + 1][2])
          /\ put_index' = put_index + 1
          /\ pc' = IF put_index' = Len(file_refs) THEN "handle" ELSE "put_files"
          /\ UNCHANGED faults
       \/ /\ faults < MaxFaults
          /\ faults' = faults + 1
          /\ pc' = "sleep"
          /\ UNCHANGED <<store, put_index>>
    /\ UNCHANGED <<lock, todo, file_paths, cached, file_refs, log_item, writes,
                   poisoned, panics, feed, request, response, updates, base, http, seen>>

\* handle_message: build_log_item, then db.lock().unwrap()
HandleMessageLock ==
    /\ pc = "handle"
    /\ lock = "free"
    /\ ~poisoned
    /\ log_item' = Some(build_log_item(Current, FileIds(file_refs)))
    /\ lock' = "worker"
    /\ writes' = 0
    /\ pc' = "store_message"
    /\ UNCHANGED <<store, todo, file_paths, cached, file_refs, put_index,
                   poisoned, panics, feed, request, response, updates, faults, base, http, seen>>

\* a variant of BlockPut that never overwrites: a key the store holds is
\* written again under a longer key
BlockPutAppending(at, write, then) ==
    /\ pc = at
    /\ lock = "worker"
    /\ \/ /\ store' = IF write[1] \in DOMAIN store
                       THEN Put(store, Append(write[1], <<"2">>), write[2])
                       ELSE Put(store, write[1], write[2])
          /\ writes' = writes + 1
          /\ pc' = then
          /\ UNCHANGED <<lock, faults>>
       \/ /\ faults < MaxFaults
          /\ faults' = faults + 1
          /\ lock' = "free"
          /\ pc' = "sleep"
          /\ UNCHANGED <<store, writes>>
    /\ UNCHANGED <<workerLocals, poisoned, panics, feed, request, response, updates,
                   base, http, seen>>

\* a variant of BlockPut whose guard outlives the failed put
BlockPutKeepingGuard(at, write, then) ==
    /\ pc = at
    /\ lock = "worker"
    /\ \/ /\ store' = Put(store, write[1], write[2])
          /\ writes' = writes + 1
          /\ pc' = then
          /\ UNCHANGED faults
       \/ /\ faults < MaxFaults
          /\ faults' = faults + 1
          /\ pc' = "sleep"
          /\ UNCHANGED <<store, writes>>
    /\ UNCHANGED <<lock, workerLocals, poisoned, panics, feed, request, response,
                   updates, base, http, seen>>

\* one db.put(..)? of the block: it is applied and the block goes on, or it
\* fails, handle_message returns the error and the guard is dropped
BlockPut(at, write, then) ==
    /\ pc = at
    /\ lock = "worker"
    /\ \/ /\ store' = Put(store, write[1], write[2])
          /\ writes' = writes + 1
          /\ pc' = then
          /\ UNCHANGED <<lock, faults>>
       \/ /\ faults < MaxFaults
          /\ faults' = faults + 1
          /\ lock' = "free"
          /\ pc' = "sleep"
          /\ UNCHANGED <<store, writes>>
    /\ UNCHANGED <<workerLocals, poisoned, panics, feed, request, response, updates, base, http, seen>>

StoreMessage ==
    BlockPut("store_message", MessageWrite(Current, Unwrap(log_item)), "store_chat_index")

StoreChatIndex == BlockPut("store_chat_index", ChatIndexWrite(Current), "store_chat_rel")

StoreChatRel == BlockPut("store_chat_rel", ChatRelWrite(Current), "store_message_ref")

StoreMessageRef == BlockPut("store_message_ref", MessageRefWrite(Current), "store_chat_meta")

\* the last write; Ok(()) drops the guard
StoreChatMeta ==
    /\ pc = "store_chat_meta"
    /\ lock = "worker"
    /\ \/ /\ store' = Put(store, ChatMetaWrite(Current)[1], ChatMetaWrite(Current)[2])
          /\ writes' = writes + 1
          /\ pc' = "process_user"
          /\ UNCHANGED faults
       \/ /\ faults < MaxFaults
          /\ faults' = faults + 1
          /\ pc' = "sleep"
          /\ UNCHANGED <<store, writes>>
    /\ lock' = "free"
    /\ UNCHANGED <<workerLocals, poisoned, panics, feed, request, response, updates, base, http, seen>>

\* handle_inter_message returns Ok(()): run goes on to the outer message or
\* to the next update
Advance ==
    /\ todo' = Tail(todo)
    /\ pc' = IF todo' = <<>> THEN "idle" ELSE "inter"
    /\ base' = IF todo' = <<>> THEN store' ELSE base

\* process_user_profile_picture, its result dropped by process_user: the
\* upstream fails or has no photo, or the bytes fail the integrity check,
\* or the put fails, or the picture is stored
ProcessUserProfilePicture ==
    /\ pc = "process_user"
    /\ IF IsSome(Current.from)
       THEN /\ pc' = "process_user_meta"
            /\ UNCHANGED <<todo, base>>
            /\ \/ UNCHANGED <<store, faults>>
               \/ /\ lock = "free"
                  /\ ~poisoned
                  /\ \E file \in Blobs :
                        store' = IF LoadFromMemoryOk(file)
                                 THEN Put(store,
                                          build_file_key("User", Unwrap(Current.from).id),
                                          file)
                                 ELSE store
                  /\ UNCHANGED faults
               \/ /\ lock = "free"
                  /\ ~poisoned
                  /\ faults < MaxFaults
                  /\ faults' = faults + 1
                  /\ UNCHANGED store
       ELSE /\ UNCHANGED <<store, faults>>
            /\ Advance
    /\ UNCHANGED <<lock, file_paths, cached, file_refs, put_index, log_item,
                   writes, poisoned, panics, feed, request, response, updates, http, seen>>

\* process_user_meta, its result dropped by process_user
ProcessUserMeta ==
    /\ pc = "process_user_meta"
    /\ lock = "free"
    /\ ~poisoned
    /\ \/ /\ store' = Put(store, UserMetaKey(Unwrap(Current.from).id),
                          UserMetaValue(Unwrap(Current.from)))
          /\ UNCHANGED faults
       \/ /\ faults < MaxFaults
          /\ faults' = faults + 1
          /\ UNCHANGED store
    /\ Advance
    /\ UNCHANGED <<lock, file_paths, cached, file_refs, put_index, log_item,
                   writes, poisoned, panics, feed, request, response, updates, http, seen>>

(***************************************************************************)
(* The ingestion worker on a poisoned Mutex, and its restart shell.        *)
(***************************************************************************)
\* where the ingestion worker calls db.lock().unwrap()
LockPcs == {"get_files", "put_files", "handle", "process_user", "process_user_meta"}

\* db.lock().unwrap() on a poisoned Mutex: the worker thread panics
WorkerLockPanic ==
    /\ pc \in LockPcs
    /\ pc = "process_user" => IsSome(Current.from)
    /\ lock = "free"
    /\ poisoned
    /\ pc' = "dead"
    /\ UNCHANGED <<store, lock, workerLocals, writes, poisoned, panics, feed, request, response,
                   updates, faults, base, http, seen>>

\* main: th.join() returns and the loop spawns the next worker thread, which
\* enters spawn_worker and run
Respawn ==
    /\ pc = "dead"
    /\ pc' = "idle"
    /\ todo' = <<>>
    /\ file_paths' = <<>>
    /\ cached' = None
    /\ file_refs' = <<>>
    /\ put_index' = 0
    /\ log_item' = None
    /\ UNCHANGED <<store, lock, writes, poisoned, panics, feed, request, response, updates, faults,
                   base, http, seen>>

(***************************************************************************)
(* The HTTP handlers (chats, chat_index, chat_listing, get_file): each     *)
(* takes the lock, reads the store and drops the lock with its reply.      *)
(***************************************************************************)
\* a variant of LockResult that reads on a poisoned Mutex as well
LockResultIgnoringPoison(is_poisoned) == "reading"

\* db.lock().map_err(LockError)? : the handler goes on to read, or returns
\* the rejection
LockResult(is_poisoned) == IF is_poisoned THEN "rejected" ELSE "reading"

HttpLock ==
    /\ http = "idle"
    /\ lock = "free"
    /\ http' = LockResult(poisoned)
    /\ lock' = IF http' = "reading" THEN "http" ELSE "free"
    /\ seen' = IF http' = "reading" THEN writes ELSE 0
    /\ UNCHANGED <<store, pc, workerLocals, writes, poisoned, panics, feed, request, response, updates,
                   faults, base>>

\* the handler returns its reply and the guard is dropped
HttpReply ==
    /\ http = "reading"
    /\ lock' = "free"
    /\ http' = "idle"
    /\ seen' = 0
    /\ UNCHANGED <<store, pc, workerLocals, writes, poisoned, panics, feed, request, response, updates,
                   faults, base>>

\* the LockError rejection is answered: no recover filter handles it
HttpRejection ==
    /\ http = "rejected"
    /\ http' = "idle"
    /\ UNCHANGED <<store, lock, pc, workerLocals, writes, poisoned, panics, feed, request, response,
                   updates, faults, base, seen>>

\* the handler panics while it reads (NaiveDateTime::from_timestamp on a day
\* out of range): the guard is dropped by the unwinding and the Mutex is
\* poisoned; the panic ends the request's task, not the server
HttpPanic ==
    /\ http = "reading"
    /\ panics < MaxPanics
    /\ panics' = panics + 1
    /\ poisoned' = TRUE
    /\ lock' = "free"
    /\ http' = "idle"
    /\ seen' = 0
    /\ UNCHANGED <<store, pc, workerLocals, writes, feed, request, response, updates, faults, base>>

Next ==
    \/ FetchUpdate
    \/ FetchError
    \/ Restart
    \/ HandleInterMessage
    \/ GetFilesLookup
    \/ GetFilesFetch
    \/ ProcessFilesPut
    \/ HandleMessageLock
    \/ StoreMessage
    \/ StoreChatIndex
    \/ StoreChatRel
    \/ StoreMessageRef
    \/ StoreChatMeta
    \/ ProcessUserProfilePicture
    \/ ProcessUserMeta
    \/ WorkerLockPanic
    \/ Respawn
    \/ HttpLock
    \/ HttpReply
    \/ HttpRejection
    \/ HttpPanic

Spec == Init /\ [][Next]_vars

\* the update streams of the runs checked for progress: text and audio
\* messages, an edit and a reply chain
LiveFeeds == {SameSecondFeed, AudioFeed, ChainFeed}

LiveInit == Init /\ feed \in LiveFeeds

\* the sleep of spawn_worker ends and the loop calls run again
LiveSpec == LiveInit /\ [][Next]_vars /\ WF_vars(Restart)

(***************************************************************************)
(* The readers.  The store orders its keys as byte strings; a key is the   *)
(* text format! wrote, its parts joined by colons.                         *)
(***************************************************************************)
\* the upper-bound byte \x7f of find_latest_chat_day
DelByte == "DEL"

\* the bytes that occur in keys and bounds, in ascending order
ByteOrder ==
    <<"-", ".", "0", "1", "2", "3", "4", "5", "6", "7", "8", "9", ":", "_",
      "a", "b", "c", "d", "e", "f", "g", "h", "i", "j", "k", "l", "m", "n",
      "o", "p", "q", "r", "s", "t", "u", "v", "w", "x", "y", "z", DelByte>>

Ord(ch) == CHOOSE i \in 1..Len(ByteOrder) : ByteOrder[i] = ch

\* the bytewise comparator of the store: a < b
RECURSIVE BytesLess(_, _)
BytesLess(a, b) ==
    IF a = <<>> THEN b # <<>>
    ELSE IF b = <<>> THEN FALSE
    ELSE IF a[1] = b[1] THEN BytesLess(Tail(a), Tail(b))
    ELSE Ord(a[1]) < Ord(b[1])

\* the text of the namespace of a key
NamespaceBytes(ns) ==
    CASE ns = "chat" -> <<"c", "h", "a", "t">>
      [] ns = "chat_index" -> <<"c", "h", "a", "t", "_", "i", "n", "d", "e", "x">>
      [] ns = "chat_rel" -> <<"c", "h", "a", "t", "_", "r", "e", "l">>
      [] ns = "chat_ref" -> <<"c", "h", "a", "t", "_", "r", "e", "f">>
      [] ns = "chat:meta" -> <<"c", "h", "a", "t", ":", "m", "e", "t", "a">>
      [] ns = "user:meta" -> <<"u", "s", "e", "r", ":", "m", "e", "t", "a">>
      [] ns = "file:chat" -> <<"f", "i", "l", "e", ":", "c", "h", "a", "t">>
      [] ns = "file:user" -> <<"f", "i", "l", "e", ":", "u", "s", "e", "r">>
      [] ns = "file:video_thumb" ->
            <<"f", "i", "l", "e", ":", "v", "i", "d", "e", "o", "_", "t", "h",
              "u", "m", "b">>

\* the bytes of a key as the store holds it
KeyBytes(key) ==
    IF Len(key) = 2 THEN NamespaceBytes(key[1]) \o <<":">> \o key[2]
    ELSE NamespaceBytes(key[1]) \o <<":">> \o key[2] \o <<":">> \o key[3]

\* key.split(":").len()
RECURSIVE SplitLen(_)
SplitLen(bytes) ==
    IF bytes = <<>> THEN 1
    ELSE (IF bytes[1] = ":" THEN 1 ELSE 0) + SplitLen(Tail(bytes))

\* the keys an iterator with these bounds can visit: lower <= key < upper
KeysBetween(db, lower_bound, upper_bound) ==
    {k \in DOMAIN db : /\ ~BytesLess(KeyBytes(k), lower_bound)
                       /\ BytesLess(KeyBytes(k), upper_bound)}

\* the greatest key of a non-empty set
LastKey(keys) ==
    CHOOSE k \in keys : \A other \in keys \ {k} : BytesLess(KeyBytes(other), KeyBytes(k))

\* IteratorMode::From(&upper_bound, Direction::Reverse): the keys in
\* descending order
RECURSIVE ReverseIter(_)
ReverseIter(keys) ==
    IF keys = {} THEN <<>>
    ELSE <<LastKey(keys)>> \o ReverseIter(keys \ {LastKey(keys)})

(***************************************************************************)
(* Dates: NaiveDateTime::from_timestamp, format("%Y-%m-%d") and            *)
(* NaiveDate::parse_from_str in the proleptic Gregorian calendar.          *)
(***************************************************************************)
\* the <<year, month, day>> of the day number counted from 1970-01-01
DateOfDay(day) ==
    LET z == day + 719468
        era == z \div 146097
        doe == z - era * 146097
        yoe == (doe - doe \div 1460 + doe \div 36524 - doe \div 146096) \div 365
        doy == doe - (365 * yoe + yoe \div 4 - yoe \div 100)
        mp == (5 * doy + 2) \div 153
        d == doy - (153 * mp + 2) \div 5 + 1
        m == IF mp < 10 THEN mp + 3 ELSE mp - 9
    IN <<yoe + era * 400 + (IF m <= 2 THEN 1 ELSE 0), m, d>>

\* the day number of a <<year, month, day>>
DayOfDate(date) ==
    LET y == IF date[2] <= 2 THEN date[1] - 1 ELSE date[1]
        era == y \div 400
        yoe == y - era * 400
        mp == IF date[2] > 2 THEN date[2] - 3 ELSE date[2] + 9
        doy == (153 * mp + 2) \div 5 + date[3] - 1
        doe == yoe * 365 + yoe \div 4 - yoe \div 100 + doy
    IN era * 146097 + doe - 719468

\* a number in at least width digits, zero padded
RECURSIVE Padded(_, _)
Padded(n, width) ==
    IF Len(NatToString(n)) >= width THEN NatToString(n)
    ELSE <<"0">> \o Padded(n, width - 1)

\* format("%Y-%m-%d") of a date of the years 0..9999
FormatDate(date) ==
    Padded(date[1], 4) \o <<"-">> \o Padded(date[2], 2) \o <<"-">> \o Padded(date[3], 2)

IsDigits(s) == \A i \in 1..Len(s) : \E d \in 1..10 : DigitChars[d] = s[i]

\* NaiveDate::parse_from_str(.., "%Y-%m-%d") for a text written as
\* YYYY-MM-DD: the date if the fields are numbers that name a day of the
\* calendar and nothing follows them
ParseDate(text) ==
    IF /\ Len(text) = 10
       /\ text[5] = "-" /\ text[8] = "-"
       /\ IsDigits(SubSeq(text, 1, 4) \o SubSeq(text, 6, 7) \o SubSeq(text, 9, 10))
    THEN LET date == <<ParseNat(SubSeq(text, 1, 4)), ParseNat(SubSeq(text, 6, 7)),
                       ParseNat(SubSeq(text, 9, 10))>>
         IN IF date[2] \in 1..12 /\ date[3] >= 1 /\ DateOfDay(DayOfDate(date)) = date
            THEN Some(date) ELSE None
    ELSE None

\* str::starts_with and str::ends_with
StartsWith(s, prefix) ==
    Len(s) >= Len(prefix) /\ SubSeq(s, 1, Len(prefix)) = prefix

EndsWith(s, suffix) ==
    Len(s) >= Len(suffix) /\ SubSeq(s, Len(s) - Len(suffix) + 1, Len(s)) = suffix

\* trim_end_matches(|c| c == '0')
RECURSIVE TrimZeros(_)
TrimZeros(s) ==
    IF s # <<>> /\ s[Len(s)] = "0" THEN TrimZeros(SubSeq(s, 1, Len(s) - 1)) ELSE s

\* timestamp_millis().to_string() of the midnight that starts a day
MillisString(day) ==
    IF day = 0 THEN <<"0">>
    ELSE to_string(day * SecondsPerDay) \o <<"0", "0", "0">>

\* find_latest_chat_day
find_latest_chat_day(db, chat_id) ==
    LET lower_bound == NamespaceBytes("chat_index") \o <<":">> \o chat_id \o <<":">>
        upper_bound == lower_bound \o <<DelByte>>
        keys == KeysBetween(db, lower_bound, upper_bound)
    IN IF keys = {} THEN None
       ELSE LET key == LastKey(keys)
            IN Some(FormatDate(DateOfDay(ParseInt(key[Len(key)]))))

\* chat_listing_iter: the (timestamp, value) pairs handed to the callback
chat_listing_iter(db, chat_id, time_start, time_end) ==
    LET prefix == NamespaceBytes("chat") \o <<":">> \o chat_id \o <<":">>
        keys == {k \in KeysBetween(db, prefix \o time_start, prefix \o time_end) :
                    SplitLen(KeyBytes(k)) = 3}
        visited == ReverseIter(keys)
    IN [i \in 1..Len(visited) |-> <<visited[i][Len(visited[i])], db[visited[i]]>>]

(***************************************************************************)
(* Display names.  A name is the text before the id and the id: the        *)
(* format "{} ({})" gives the fields joined by spaces and the id, the      *)
(* format "{}" of the bare id gives no field and the id.                   *)
(***************************************************************************)
\* serde_json::from_slice::<UserMeta>: an object with the fields of the
\* struct that are no Option
DecodeUserMeta(v) ==
    IF {"id", "first_name", "is_bot"} \subseteq DOMAIN v THEN Some(v) ELSE None

\* resolve_user_meta_with_id
resolve_user_meta_with_id(user) ==
    IF IsSome(user.username)
    THEN [name |-> <<Unwrap(user.username)>>, id |-> user.id]
    ELSE IF IsSome(user.last_name)
    THEN [name |-> <<user.first_name, Unwrap(user.last_name)>>, id |-> user.id]
    ELSE [name |-> <<user.first_name>>, id |-> user.id]

\* resolve_user(db, user_id, true)
resolve_user(db, user_id) ==
    LET v == Get(db, UserMetaKey(user_id))
        user == IF IsSome(v) THEN DecodeUserMeta(Unwrap(v)) ELSE None
    IN IF IsSome(user) THEN resolve_user_meta_with_id(Unwrap(user))
       ELSE [name |-> <<>>, id |-> user_id]

\* the match of resolve_chat_name on the decoded ChatMeta
ChatMetaName(chat) ==
    LET meta == chat.meta
    IN CASE chat.variant = "User" -> resolve_user_meta_with_id(meta)
         [] chat.variant = "Group" -> [name |-> <<meta.title>>, id |-> meta.id]
         [] chat.variant = "SuperGroup" ->
               [name |-> IF IsSome(meta.username) THEN <<Unwrap(meta.username)>>
                         ELSE <<meta.title>>,
                id |-> meta.id]
         [] chat.variant = "Channel" ->
               IF IsSome(meta.username)
               THEN [name |-> <<Unwrap(meta.username)>>, id |-> meta.id]
               ELSE [name |-> <<>>, id |-> meta.id]
         [] chat.variant = "Unknown" ->
               IF IsSome(meta.username)
               THEN [name |-> <<Unwrap(meta.username)>>, id |-> meta.id]
               ELSE IF IsSome(meta.last_name) /\ IsSome(meta.first_name)
               THEN [name |-> <<Unwrap(meta.first_name), Unwrap(meta.last_name)>>,
                     id |-> meta.id]
               ELSE IF IsSome(meta.first_name)
               THEN [name |-> <<Unwrap(meta.first_name)>>, id |-> meta.id]
               ELSE IF IsSome(meta.title)
               THEN [name |-> <<Unwrap(meta.title)>>, id |-> meta.id]
               ELSE [name |-> <<>>, id |-> meta.id]

\* resolve_chat_name
resolve_chat_name(db, chat_id) ==
    LET v == Get(db, ChatMetaKey(chat_id))
        meta == IF IsSome(v) THEN DecodeChatMeta(Unwrap(v)) ELSE None
    IN IF IsSome(meta) THEN ChatMetaName(Unwrap(meta))
       ELSE resolve_user(db, chat_id)

LatestQuery == <<"l", "a", "t", "e", "s", "t">>

JsonSuffix == <<".", "j", "s", "o", "n">>

\* the closure of the json branch: the LogItem, the files of an image or a
\* sticker rewritten to /file/image/<id>
JsonItem(val) ==
    LET item == Unwrap(DecodeLogItem(val))
    IN IF item.variant = "media" /\ DOMAIN item.fields.type \subseteq {"image", "sticker"}
       THEN [item EXCEPT !.fields.files =
                [i \in DOMAIN item.fields.files |->
                    <<"/file/image/">> \o item.fields.files[i]]]
       ELSE item

RECURSIVE JsonArray(_)
JsonArray(pairs) ==
    IF pairs = <<>> THEN <<>>
    ELSE (IF IsSome(DecodeLogItem(pairs[1][2])) THEN <<JsonItem(pairs[1][2])>> ELSE <<>>)
         \o JsonArray(Tail(pairs))

\* the closure of the html branch renders a row for each record that decodes
RECURSIVE HtmlRows(_)
HtmlRows(pairs) ==
    IF pairs = <<>> THEN <<>>
    ELSE (IF IsSome(DecodeLogItem(pairs[1][2])) THEN <<pairs[1][1]>> ELSE <<>>)
         \o HtmlRows(Tail(pairs))

\* chat_listing once it holds the lock: the page of chat_id for date_query
chat_listing(db, chat_id, date_query) ==
    LET latest == find_latest_chat_day(db, chat_id)
        date == IF StartsWith(date_query, LatestQuery)
                THEN (IF IsSome(latest) THEN Unwrap(latest) ELSE <<>>)
                ELSE date_query
        out_format == IF EndsWith(date_query, JsonSuffix) THEN "json" ELSE "html"
        chat_name == resolve_chat_name(db, chat_id)
        time == ParseDate(date)
        day == DayOfDate(Unwrap(time))
        pairs == chat_listing_iter(db, chat_id, TrimZeros(MillisString(day)),
                                   TrimZeros(MillisString(day + 1)))
    IN IF StartsWith(date_query, LatestQuery) /\ ~IsSome(latest)
       THEN [page |-> "empty", format |-> "html", title |-> chat_name]
       ELSE IF ~IsSome(time)
       THEN [page |-> "invalid date", format |-> out_format]
       ELSE IF out_format = "json"
       THEN [page |-> "listing", format |-> "json", date |-> date,
             items |-> JsonArray(pairs)]
       ELSE [page |-> "listing", format |-> "html", date |-> date,
             title |-> chat_name, items |-> HtmlRows(pairs)]

(***************************************************************************)
(* The archive and its day pages: text updates are ingested whole, and     *)
(* between two ingestions GET /chat/<id>/<date> is served.                 *)
(***************************************************************************)
\* a second group, whose id starts with the id of GroupChat
OtherGroupChat ==
    [variant |-> "Group",
     data |-> [id |-> -1001, title |-> "O", all_members_are_administrators |-> FALSE,
               invite_link |-> None]]

\* two days of 2023 and the last day whose number has four digits
EarlierDay == DayOfDate(<<2023, 11, 9>>)

LatestDay == DayOfDate(<<2023, 11, 14>>)

ShortDay == DayOfDate(<<1997, 5, 18>>)

DatedUpdate(id, chat, date) ==
    Update(RawMessage(id, date, chat, None, None, TextKind))

\* texts of the group on two days of 2023 (at midnight, in the last second
\* of the day), of the other group, of a day with a nine-digit timestamp,
\* and one dated before 1970
ArchiveFeed ==
    {DatedUpdate(1, GroupChat, EarlierDay * SecondsPerDay + 5),
     DatedUpdate(2, GroupChat, LatestDay * SecondsPerDay),
     DatedUpdate(3, GroupChat, (LatestDay + 1) * SecondsPerDay - 1),
     DatedUpdate(4, OtherGroupChat, (LatestDay + 5) * SecondsPerDay),
     DatedUpdate(5, GroupChat, ShortDay * SecondsPerDay + 7),
     DatedUpdate(6, GroupChat, 0 - 1)}

\* process_files: the blobs get_files returned, put one by one
RECURSIVE PutFiles(_, _)
PutFiles(db, refs) ==
    IF refs = <<>> THEN db
    ELSE PutFiles(Put(db, build_file_key("Chat", Head(refs)[1]), Head(refs)[2]),
                  Tail(refs))

\* handle_inter_message with every write succeeding: refs are the pairs
\* get_files returns for the message, file is what the upstream returns as
\* the profile picture of the sender
IngestMessage(db, message, refs, file) ==
    LET w1 == MessageWrite(message, build_log_item(message, FileIds(refs)))
        w2 == ChatIndexWrite(message)
        w3 == ChatRelWrite(message)
        w4 == MessageRefWrite(message)
        w5 == ChatMetaWrite(message)
        block == Put(Put(Put(Put(Put(PutFiles(db, refs), w1[1], w1[2]), w2[1], w2[2]),
                             w3[1], w3[2]), w4[1], w4[2]), w5[1], w5[2])
        user == Unwrap(message.from)
        pictured == IF LoadFromMemoryOk(file)
                    THEN Put(block, build_file_key("User", user.id), file)
                    ELSE block
    IN IF IsSome(message.from)
       THEN Put(pictured, UserMetaKey(user.id), UserMetaValue(user))
       ELSE block

\* run for one update: the replied-to message, then the message; refs are
\* the attachments of the message, a replied-to message having none
RECURSIVE IngestAll(_, _, _, _)
IngestAll(db, messages, refs, file) ==
    IF messages = <<>> THEN db
    ELSE IF Tail(messages) = <<>> THEN IngestMessage(db, Head(messages), refs, file)
    ELSE IngestAll(IngestMessage(db, Head(messages), <<>>, file), Tail(messages),
                   refs, file)

\* the <id> segments requested: the chats and the senders of the feed
RequestedChatIds ==
    LET messages == {InterMessageFrom(Unwrap(update.message)) : update \in feed}
    IN {ChatId(m) : m \in messages}
       \cup {Unwrap(m.from).id : m \in {m \in messages : IsSome(m.from)}}

\* the <date> segments requested: latest, the two days of 2023, the short
\* day, 1970-01-01 and a day no calendar has, each also with .json
DateQueries ==
    LET dates == {LatestQuery, FormatDate(DateOfDay(EarlierDay)),
                  FormatDate(DateOfDay(LatestDay)), FormatDate(DateOfDay(ShortDay)),
                  FormatDate(DateOfDay(0)),
                  <<"2", "0", "2", "3", "-", "0", "2", "-", "3", "0">>}
    IN dates \cup {d \o JsonSuffix : d \in dates}

ArchiveInit ==
    /\ feed = ArchiveFeed
    /\ Constructed
    /\ NoRequest

\* an update is fetched and ingested to its end
ArchiveIngest ==
    /\ pc = "idle"
    /\ lock = "free"
    /\ request = None
    /\ \E update \in feed, file \in Blobs :
          store' = IngestAll(store, InterMessagesOf(update), <<>>, file)
    /\ UNCHANGED <<feed, lock, pc, workerLocals, writes, updates, faults, base,
                   http, seen, poisoned, panics, request, response>>

\* GET /chat/<id>/<date>: chat_listing takes the lock, builds the page and
\* returns it
ChatListing ==
    /\ lock = "free"
    /\ request = None
    /\ \E chat_id \in RequestedChatIds, date_query \in DateQueries :
          /\ request' = Some([chat_id |-> chat_id, date_query |-> date_query])
          /\ response' = Some(chat_listing(store, chat_id, date_query))
    /\ UNCHANGED <<feed, store, lock, pc, workerLocals, writes, updates, faults,
                   base, http, seen, poisoned, panics>>

\* the reply is on its way; the next request can come
ReplySent ==
    /\ request # None
    /\ request' = None
    /\ response' = None
    /\ UNCHANGED <<feed, store, lock, pc, workerLocals, writes, updates, faults,
                   base, http, seen, poisoned, panics>>

ArchiveNext ==
    \/ ArchiveIngest
    \/ ChatListing
    \/ ReplySent

ArchiveSpec == ArchiveInit /\ [][ArchiveNext]_vars

(***************************************************************************)
(* The titles of the pages: one chat of every shape the upstream can send. *)
(***************************************************************************)
OptionalNames(text) == {None, Some(text)}

NamedChats ==
    {[variant |-> "Private",
      data |-> [Bob EXCEPT !.last_name = last_name, !.username = username]] :
        last_name \in OptionalNames("Roe"), username \in OptionalNames("bob")}
    \cup {GroupChat}
    \cup {[variant |-> "Supergroup",
           data |-> [SupergroupChat.data EXCEPT !.username = username]] :
             username \in OptionalNames("sg")}
    \cup {[variant |-> "Channel", data |-> [NewsChannel EXCEPT !.username = username]] :
             username \in OptionalNames("news")}
    \cup {[variant |-> "Unknown",
           data |-> [UnknownChat.data EXCEPT !.title = title, !.username = username,
                                             !.first_name = first_name,
                                             !.last_name = last_name]] :
             title \in OptionalNames("U"), username \in OptionalNames("unk"),
             first_name \in OptionalNames("Uma"), last_name \in OptionalNames("Doe")}

\* the upstream delivers one text of one of the chats
NamesInit ==
    /\ \E chat \in NamedChats :
          feed = {DatedUpdate(1, chat, LatestDay * SecondsPerDay)}
    /\ Constructed
    /\ NoRequest

NamesSpec == NamesInit /\ [][ArchiveNext]_vars

(***************************************************************************)
(* find_biggest_photo on the size lists the upstream can return for a      *)
(* photo: sizes of no area, two sizes of equal area, a bigger one.         *)
(***************************************************************************)
PhotoSizes ==
    {[file_id |-> <<"a">>, width |-> 0, height |-> 5, file_size |-> None],
     [file_id |-> <<"b">>, width |-> 5, height |-> 0, file_size |-> None],
     [file_id |-> <<"c">>, width |-> 2, height |-> 2, file_size |-> None],
     [file_id |-> <<"d">>, width |-> 4, height |-> 1, file_size |-> None],
     [file_id |-> <<"e">>, width |-> 3, height |-> 3, file_size |-> None]}

MaxSizes == 3

PhotoLists == UNION {[1..n -> PhotoSizes] : n \in 1..MaxSizes}

PhotosInit ==
    /\ feed = {}
    /\ Constructed
    /\ request \in {Some(photos) : photos \in PhotoLists}
    /\ response = None

\* the call find_biggest_photo(&photo_sizes)
FindBiggestPhoto ==
    /\ request # None
    /\ response = None
    /\ response' = Some(find_biggest_photo(Unwrap(request)))
    /\ UNCHANGED <<feed, store, lock, pc, workerLocals, writes, updates, faults,
                   base, http, seen, poisoned, panics, request>>

PhotosSpec == PhotosInit /\ [][FindBiggestPhoto]_vars

(***************************************************************************)
(* Redelivery: the upstream delivers one and the same update every time.   *)
(***************************************************************************)
\* a text, an audio file, a reply to an earlier text, and a text forwarded
\* into a private chat
RedeliveredUpdates ==
    {TextUpdate(1, GroupChat, None),
     Update(RawMessage(3, MessageDate, GroupChat, None, None,
                       AudioKind(Some(MAX_FILE_SIZE)))),
     Update(RawMessage(5, MessageDate, GroupChat, None,
                       Some(RawMessage(1, ReplyDate, GroupChat, None, None, TextKind)),
                       TextKind)),
     TextUpdate(2, PrivateChat, ForwardFrom([variant |-> "User", user |-> Ann]))}

RedeliveryInit ==
    /\ \E update \in RedeliveredUpdates : feed = {update}
    /\ Constructed
    /\ NoRequest

RedeliverySpec == RedeliveryInit /\ [][Next]_vars

(***************************************************************************)
(* Properties.                                                             *)
(***************************************************************************)
Keys == DOMAIN store

\* the keys chat:<c>:<t> of message records
MessageKeys == {k \in Keys : k[1] = "chat"}

\* the InterMessage a decoded LogItem carries as its source
SourceOf(item) ==
    IF item.variant = "unimplemented" THEN item.fields[4] ELSE item.fields.source

\* the time a decoded LogItem carries
TimeOf(item) ==
    IF item.variant = "unimplemented" THEN item.fields[3] ELSE item.fields.time

\* C1: in every state a reader can observe, every key chat:<c>:<t> comes
\* with chat_index:<c>:<floor(t/86400)> and chat_rel:<c>
C1_RecordsAreIndexed ==
    lock # "worker" =>
        \A k \in MessageKeys :
            /\ ChatIndexKey(k[2], to_string(ParseInt(k[3]) \div SecondsPerDay)) \in Keys
            /\ ChatRelKey(k[2]) \in Keys

\* C2: whenever chat_ref:<c>:<m> holds <t>, chat:<c>:<t> exists and decodes
\* to a LogItem whose source.id is m
C2_RefResolvesToItsMessage ==
    \A k \in Keys :
        k[1] = "chat_ref" =>
            /\ MessageKey(k[2], store[k]) \in Keys
            /\ LET item == DecodeLogItem(store[MessageKey(k[2], store[k])])
               IN /\ IsSome(item)
                  /\ IsSome(SourceOf(Unwrap(item)))
                  /\ to_string(Unwrap(SourceOf(Unwrap(item))).id) = k[3]

\* C3: no HTTP handler reads the store when some but not all of the five
\* writes of one message have been applied
C3_ReadersSeeAllOrNothing == http = "reading" => seen \in {0, 5}

\* C4: when the ingestion of an update has failed, the store is what it was
\* before the update was started
C4_FailedIngestionInvisible == pc = "sleep" => store = base

\* C5: in every state a reader can observe, every file-id in the files of a
\* persisted Media record has non-empty bytes at file:chat:<file-id>
C5_FilesHaveNonEmptyBlobs ==
    lock # "worker" =>
        \A k \in MessageKeys :
            LET item == Unwrap(DecodeLogItem(store[k]))
            IN item.variant = "media" =>
                  \A i \in 1..Len(item.fields.files) :
                      /\ build_file_key("Chat", item.fields.files[i]) \in Keys
                      /\ store[build_file_key("Chat", item.fields.files[i])] # EmptyBytes

\* C6: the time of the LogItem stored at chat:<c>:<t> is t
C6_TimeIsKeyTime ==
    \A k \in MessageKeys :
        to_string(TimeOf(Unwrap(DecodeLogItem(store[k])))) = k[3]

\* the effective timestamp as the specification words it
EffectiveTimeOf(message) ==
    IF message.forward = None THEN message.date ELSE message.forward[1].date

\* the block of the current message has been written in full
BlockDone == pc = "process_user"

\* C7: once the block of a message is written, its record sits at
\* chat:<c>:<t>, chat_ref:<c>:<id> holds <t> and chat_index:<c>:<floor(t/86400)>
\* exists, for one chat c and t the forward date if the message carries a
\* forward and its own date otherwise
C7_KeysFromEffectiveTime ==
    BlockDone =>
        LET t == EffectiveTimeOf(Current)
        IN \E c \in {k[2] : k \in Keys} :
              /\ MessageKey(c, to_string(t)) \in Keys
              /\ SourceOf(Unwrap(DecodeLogItem(store[MessageKey(c, to_string(t))])))
                    = Some(Current)
              /\ MessageRefKey(c, to_string(Current.id)) \in Keys
              /\ store[MessageRefKey(c, to_string(Current.id))] = to_string(t)
              /\ ChatIndexKey(c, to_string(t \div SecondsPerDay)) \in Keys

\* a forwarded message whose block is written, the forward date being
\* another day than its own date
C7_Witness ==
    /\ BlockDone
    /\ Current.forward # None
    /\ Current.forward[1].date \div SecondsPerDay # Current.date \div SecondsPerDay

\* the id of the origin of a forward, for the origins that have one
OriginId(from) ==
    CASE from.variant = "User" -> Some(from.user.id)
      [] from.variant = "Channel" -> Some(from.channel.id)
      [] from.variant = "HiddenGroupAdmin" -> Some(from.chat_id)
      [] OTHER -> None

\* redirection applies: a private or unknown receiving chat, and a forward
\* whose origin has an id
RedirectionApplies(message) ==
    /\ message.chat.variant \in {"User", "Unknown"}
    /\ message.forward # None
    /\ OriginId(message.forward[1].from) # None

\* the chat-id the records of a message belong under
ArchiveChatId(message) ==
    IF RedirectionApplies(message) THEN OriginId(message.forward[1].from)[1]
    ELSE message.chat.meta.id

\* the keys a step writes or rewrites
WrittenKeys == {k \in DOMAIN store' : k \notin DOMAIN store \/ store'[k] # store[k]}

\* C8: every write of the block of a message goes under the id of the forward
\* origin exactly when the receiving chat is private or unknown and the
\* forward has an origin with an id, and under the receiving chat's id otherwise
C8_WritesUnderArchiveChat ==
    [][lock = "worker" => \A k \in WrittenKeys : k[2] = ArchiveChatId(Current)]_vars

\* the block of a redirected message is written, under another id than the
\* receiving chat's
C8_Witness ==
    /\ BlockDone
    /\ RedirectionApplies(Current)
    /\ ArchiveChatId(Current) # Current.chat.meta.id
    /\ ChatMetaKey(ArchiveChatId(Current)) \in Keys

\* the id of the chat or user a stored chat:meta value describes
DescribedId(value) ==
    IF Cardinality(DOMAIN value) = 1
    THEN value[CHOOSE tag \in DOMAIN value : TRUE].id
    ELSE value.id

\* C9: once the block is written, chat:meta:<chat-id> describes the forward
\* origin when redirection applies (User, Channel, HiddenGroupAdmin) and the
\* receiving chat when it does not
C9_MetaDescribesArchiveChat ==
    BlockDone =>
        LET value == store[ChatMetaKey(ChatId(Current))]
        IN IF RedirectionApplies(Current)
           THEN DescribedId(value) = OriginId(Current.forward[1].from)[1]
           ELSE DescribedId(value) = Current.chat.meta.id

\* C10: every value under chat:meta:<chat-id> decodes as a ChatMeta
C10_ChatMetaDecodes ==
    \A k \in Keys : k[1] = "chat:meta" => IsSome(DecodeChatMeta(store[k]))

\* the message the current one replies to
RepliedTo(message) == Unwrap(message.reply_to_message)

\* the keys of the five writes of a message
BlockKeys(message) ==
    {ChatIndexWrite(message)[1], ChatRelWrite(message)[1],
     MessageRefWrite(message)[1], ChatMetaWrite(message)[1],
     MessageKey(ChatId(message), to_string(EstablishedDate(message)))}

\* a write of the block of the message has been applied since the update
\* was fetched
Touched(message) ==
    \E k \in {MessageKey(ChatId(message), to_string(EstablishedDate(message))),
               MessageRefWrite(message)[1]} :
        k \in Keys /\ (k \in DOMAIN base => store[k] # base[k])

\* the message the current one replies to has been ingested to the end
ReplyWritten(message) ==
    /\ BlockKeys(RepliedTo(message)) \subseteq Keys
    /\ \A i \in 1..Len(todo) : todo[i] # RepliedTo(message)

\* C11: no write for the message of an update is applied before the message
\* it replies to has been ingested to the end; when that ingestion fails the
\* replying message is not written
C11_ReplyBeforeReplying ==
    todo # <<>> =>
        LET outer == todo[Len(todo)]
        IN IsSome(outer.reply_to_message) /\ Touched(outer) => ReplyWritten(outer)

\* the block of a replying message is written
C11_Witness ==
    /\ BlockDone
    /\ IsSome(Current.reply_to_message)
    /\ Touched(Current)

\* the messages of the reply chain below a message
RECURSIVE ChainOf(_)
ChainOf(message) ==
    IF IsSome(message.reply_to_message)
    THEN {RepliedTo(message)} \cup ChainOf(RepliedTo(message))
    ELSE {}

\* C12: once the block of a message is written, every message of its reply
\* chain, of whatever depth, has been ingested as a record of its own
C12_ChainIngested ==
    BlockDone => \A message \in ChainOf(Current) : MessageRefWrite(message)[1] \in Keys

\* C13: the blob of a file-id is written at most once: process_files puts
\* file:chat:<file-id> only when the store does not hold that key yet
C13_BlobWrittenOnce ==
    [][pc = "put_files" /\ put_index' = put_index + 1 =>
          build_file_key("Chat", file_refs[put_index + 1][1]) \notin DOMAIN store]_vars

\* the attachments of an Audio, Voice or Photo message
Attachments(message) ==
    CASE message.kind.type \in {"Audio", "Voice"} -> {message.kind.data}
      [] message.kind.type = "Photo" ->
            {message.kind.data[i] : i \in 1..Len(message.kind.data)}
      [] OTHER -> {}

\* the elements of a sequence
Range(seq) == {seq[i] : i \in 1..Len(seq)}

\* the files of the LogItem built for the current message, if any
BuiltFiles == IF IsSome(log_item) THEN Range(Unwrap(log_item).media.files) ELSE {}

\* the worker is past extract_file_paths for the current message
PathsExtracted == todo # <<>> /\ pc # "inter"

\* C14: an attachment whose file_size is absent or above MAX_FILE_SIZE is
\* neither looked up nor downloaded nor listed in files; one whose file_size
\* is at most MAX_FILE_SIZE, MAX_FILE_SIZE included, is kept
C14_SizePolicy ==
    PathsExtracted =>
        \A attachment \in Attachments(Current) :
            IF attachment.file_size = None
               \/ Unwrap(attachment.file_size) > MAX_FILE_SIZE
            THEN /\ attachment.file_id \notin Range(file_paths)
                 /\ attachment.file_id \notin Range(FileIds(file_refs))
                 /\ attachment.file_id \notin BuiltFiles
            ELSE attachment.file_id
                    \in Range(extract_file_paths(Current, AttachmentIds(Current)))

\* an attachment of exactly MAX_FILE_SIZE is listed in the files of the
\* record written for its message
C14_Witness ==
    /\ BlockDone
    /\ \E attachment \in Attachments(Current) :
           /\ attachment.file_size = Some(MAX_FILE_SIZE)
           /\ attachment.file_id \in BuiltFiles

\* C15: of the sizes of a Photo message no other than the one maximizing
\* width*height is listed in files, and media_type carries its width and
\* height
C15_OnlyBiggestPhoto ==
    BlockDone /\ Current.kind.type = "Photo" =>
        LET biggest == find_biggest_photo(Current.kind.data)
            media == Unwrap(log_item).media
        IN /\ BuiltFiles \subseteq {biggest.file_id}
           /\ media.type = [image |-> [width |-> biggest.width,
                                       height |-> biggest.height]]

\* C16: in every state a reader can observe, the bytes stored for an image
\* (the files of a photo record, a user's profile photo) pass the image
\* sniffer
C16_ImagesValidated ==
    lock # "worker" =>
        /\ \A k \in Keys : k[1] = "file:user" => LoadFromMemoryOk(store[k])
        /\ \A k \in MessageKeys :
               LET item == Unwrap(DecodeLogItem(store[k]))
               IN item.variant = "media" /\ DOMAIN item.fields.type = {"image"} =>
                     \A id \in Range(item.fields.files) :
                         build_file_key("Chat", id) \in Keys =>
                             LoadFromMemoryOk(store[build_file_key("Chat", id)])

\* where a failed db.put is returned through `?` up to run
RunPcs ==
    {"put_files", "store_message", "store_chat_index", "store_chat_rel",
     "store_message_ref", "store_chat_meta"}

\* C17: an error returned while an update is processed ends the run; the
\* worker then only sleeps, fetching no update and writing nothing, and
\* leaves the sleep into a new run that starts from the stream and does not
\* take the failed update up again; after every ended run a new one starts
C17_ErrorEndsRunThenSleepThenRun ==
    /\ [][/\ faults' > faults /\ pc \in RunPcs => pc' = "sleep"
          /\ pc = "sleep" =>
                /\ pc' \in {"sleep", "idle"}
                /\ updates' = updates
                /\ store' = store
          /\ pc = "sleep" /\ pc' = "idle" => todo' = <<>>]_vars
    /\ (pc = "sleep") ~> (pc = "idle")

\* a store write failed and the worker sleeps
C17_Witness == pc = "sleep" /\ faults > 0

\* C18: the step that follows the death of the worker thread is a delay,
\* not the start of its replacement
C18_DelayBeforeRespawn == [][pc = "dead" => pc' \in {"dead", "sleep"}]_vars

\* C19: a handler's panic, also one while it holds the lock, does not kill
\* the ingestion worker
C19_IngestionSurvivesHandlerPanic == panics > 0 => pc # "dead"

\* C20: a request whose lock acquisition fails is rejected: it never reads
\* the store, does not hold the lock, and the handler is free for the next
\* request afterwards
C20_LockErrorRejects ==
    [][/\ poisoned /\ http = "idle" /\ http' # "idle" =>
             http' = "rejected" /\ UNCHANGED <<lock, store>>
       /\ http = "rejected" => lock # "http" /\ http' \in {"rejected", "idle"}]_vars

\* a request is being rejected on the poisoned Mutex
C20_Witness == http = "rejected" /\ poisoned /\ lock = "free"

\* the days the index of a chat holds, as numbers
IndexedDays(chat_id) ==
    {ParseInt(k[3]) : k \in {k \in Keys : k[1] = "chat_index" /\ k[2] = chat_id}}

Max(numbers) == CHOOSE n \in numbers : \A other \in numbers : other <= n

\* the request served and the page returned for it
Request == Unwrap(request)

Response == Unwrap(response)

\* C21: for a chat with a non-empty set of indexed days, latest resolves to
\* the calendar date of the numerically greatest indexed day of that chat
C21_LatestIsGreatestDay ==
    (IsSome(request) /\ StartsWith(Request.date_query, LatestQuery)
                     /\ IndexedDays(Request.chat_id) # {}) =>
        /\ Response.page = "listing"
        /\ Response.date = FormatDate(DateOfDay(Max(IndexedDays(Request.chat_id))))

\* every message record of the store has a ten-digit timestamp
TenDigitStore == \A k \in MessageKeys : Len(k[3]) = 10 /\ k[3][1] # "-"

\* the day a date request names
RequestedDay == DayOfDate(Unwrap(ParseDate(Request.date_query)))

\* the timestamps of the records of a chat that fall on a day
TimesOn(chat_id, day) ==
    {ParseInt(k[3]) : k \in {k \in MessageKeys :
                                /\ k[2] = chat_id
                                /\ ParseInt(k[3]) \div SecondsPerDay = day}}

\* C22: on a store of ten-digit timestamps the page of (c, D) lists exactly
\* the records chat:<c>:<t> with floor(t/86400) the day number of D, each
\* once, in descending order
C22_DayViewIsExact ==
    (/\ IsSome(request)
     /\ ~StartsWith(Request.date_query, LatestQuery)
     /\ Response.page = "listing"
     /\ Response.format = "html"
     /\ TenDigitStore) =>
        LET items == Response.items
        IN /\ {ParseInt(items[i]) : i \in 1..Len(items)}
                   = TimesOn(Request.chat_id, RequestedDay)
           /\ \A i, j \in 1..Len(items) :
                   i < j => ParseInt(items[i]) > ParseInt(items[j])

\* the <date> segment of a request without its .json suffix
DatePart(date_query) ==
    IF EndsWith(date_query, JsonSuffix)
    THEN SubSeq(date_query, 1, Len(date_query) - Len(JsonSuffix))
    ELSE date_query

\* C23: a request for D.json with D a valid date, or for latest.json in a
\* chat with indexed days, is answered with the JSON array of a day and not
\* with an invalid-date error
C23_JsonSuffixAccepted ==
    (/\ IsSome(request)
     /\ EndsWith(Request.date_query, JsonSuffix)
     /\ \/ IsSome(ParseDate(DatePart(Request.date_query)))
        \/ /\ DatePart(Request.date_query) = LatestQuery
           /\ IndexedDays(Request.chat_id) # {}) =>
        /\ Response.page = "listing"
        /\ Response.format = "json"

\* the display fields a stored meta record carries, each as an Option;
\* first_name of a user and title of a group, supergroup or channel are
\* stored as plain texts
DisplayFields(variant, meta) ==
    [f \in {"username", "first_name", "last_name", "title"} |->
        IF f \notin DOMAIN meta THEN None
        ELSE IF \/ (variant = "User" /\ f = "first_name")
                \/ (variant \in {"Group", "SuperGroup", "Channel"} /\ f = "title")
        THEN Some(meta[f])
        ELSE meta[f]]

\* the ladder username, first and last name, first name, title, nothing
LadderName(fields) ==
    IF IsSome(fields.username) THEN <<Unwrap(fields.username)>>
    ELSE IF IsSome(fields.first_name) /\ IsSome(fields.last_name)
    THEN <<Unwrap(fields.first_name), Unwrap(fields.last_name)>>
    ELSE IF IsSome(fields.first_name) THEN <<Unwrap(fields.first_name)>>
    ELSE IF IsSome(fields.title) THEN <<Unwrap(fields.title)>>
    ELSE <<>>

\* the name the ladder gives for a chat id on the store
ExpectedName(chat_id) ==
    LET chat_meta == Get(store, ChatMetaKey(chat_id))
        user_meta == Get(store, UserMetaKey(chat_id))
    IN IF IsSome(chat_meta)
       THEN LET variant == CHOOSE tag \in DOMAIN Unwrap(chat_meta) : TRUE
            IN LadderName(DisplayFields(variant, Unwrap(chat_meta)[variant]))
       ELSE IF IsSome(user_meta)
       THEN LadderName(DisplayFields("User", Unwrap(user_meta)))
       ELSE <<>>

\* C24: the title of a page names the chat by the most specific field its
\* chat:meta record carries (username, first and last name, first name,
\* title), by the same ladder on user:meta:<id> when chat:meta:<id> is
\* absent, and by the bare id only when no such field is present
C24_NameLadder ==
    (IsSome(request) /\ "title" \in DOMAIN Response) =>
        /\ Response.title.name = ExpectedName(Request.chat_id)
        /\ Response.title.id = Request.chat_id

\* C25: the days indexed for a chat are exactly the days floor(t/86400) of
\* the effective timestamps t of its records: 86400*k falls on day k and
\* 86400*k - 1 on day k - 1, for negative t as well
C25_DayKeyIsFloor ==
    \A chat_id \in {k[2] : k \in MessageKeys} :
        IndexedDays(chat_id) =
            {ParseInt(k[3]) \div SecondsPerDay :
                k \in {k \in MessageKeys : k[2] = chat_id}}

\* the keys user:meta:<id> of a store
UserMetaKeys(db) == {k \in DOMAIN db : k[1] = "user:meta"}

RecordKey(message) ==
    <<"chat", ArchiveChatId(message), to_string(EffectiveTimeOf(message))>>

\* C27: no step removes a key; a record chat:<c>:<t> is written or rewritten
\* only while a message with chat-id c and effective timestamp t is ingested;
\* and once that message's record is put, the key holds the record of that
\* message, whatever it held before
C27_RecordsAreUpserts ==
    [][/\ Keys \subseteq DOMAIN store'
       /\ \A k \in {w \in WrittenKeys : w[1] = "chat"} :
             todo # <<>> /\ k = RecordKey(Current)
       /\ (pc = "store_message" /\ pc' = "store_chat_index") =>
             /\ RecordKey(Current) \in DOMAIN store'
             /\ SourceOf(Unwrap(DecodeLogItem(store'[RecordKey(Current)])))
                   = Some(Current)]_vars

\* the record of a second message with the same chat-id and effective
\* timestamp has replaced the one the store held when its update arrived
C27_Witness ==
    /\ pc = "store_chat_index"
    /\ RecordKey(Current) \in DOMAIN base
    /\ base[RecordKey(Current)] # store[RecordKey(Current)]

Area(photo) == photo.width * photo.height

\* the index of the first element of maximal area
FirstBiggest(photos) ==
    CHOOSE i \in 1..Len(photos) :
        /\ \A j \in 1..Len(photos) : Area(photos[j]) <= Area(photos[i])
        /\ \A j \in 1..(i - 1) : Area(photos[j]) < Area(photos[i])

\* C28: find_biggest_photo returns the first element of maximal
\* width*height of the list, also when the list starts with elements of
\* area 0
C28_FirstOfMaximalArea ==
    IsSome(response) => Response = Request[FirstBiggest(Request)]

\* where the worker is suspended in an await: on the update stream, on a
\* path or a download, on build_log_item, on the profile photos, in the sleep
AwaitPcs == {"idle", "inter", "fetch", "handle", "process_user", "sleep"}

Completes == pc \in {"process_user", "process_user_meta"} /\ pc' = "idle"

\* the attachment and picture blobs of a store
BlobsOf(db) ==
    [k \in {k \in DOMAIN db : k[1] \in {"file:chat", "file:user"}} |-> db[k]]

\* every attachment the store holds was downloaded, with these bytes, by the
\* ingestion that now ends
SameDownloads ==
    \A k \in {k \in DOMAIN store' : k[1] = "file:chat"} :
        \E i \in 1..Len(file_refs) : file_refs[i] = <<k[2], store'[k]>>

\* the files the record of a message lists in a store
ListedFiles(db, message) ==
    LET item == Unwrap(DecodeLogItem(db[RecordKey(message)]))
    IN IF item.variant = "media" THEN item.fields.files ELSE <<>>

\* the upstream returned to the ingestion that now ends what it returned to
\* the one before: the same attachments and the same blobs
SameAsBefore ==
    /\ SameDownloads
    /\ BlobsOf(store') = BlobsOf(base)
    /\ RecordKey(Current) \in DOMAIN base
    /\ ListedFiles(base, Current) = FileIds(file_refs)

\* the store that ingesting the delivered update once, without a failure,
\* gives for the downloads and the picture of the ingestion that now ends
IngestedOnce ==
    IngestAll(EmptyStore, InterMessagesOf(CHOOSE update \in feed : TRUE), file_refs,
              IF \E k \in DOMAIN store' : k[1] = "file:user"
              THEN ImageBytes ELSE EmptyBytes)

=============================================================================
